---- MODULE Spec2Model ----
(***************************************************************************)
(* Template-population engine of the PowerPoint population service         *)
(* (src/service.py): shape lookup, text and table writers with format      *)
(* preservation, and the multi-slide population loop.                      *)
(*                                                                         *)
(* Text is a sequence of one-character strings.  A python value None is    *)
(* the string "None"; an attribute whose access raises AttributeError is   *)
(* the string "AttributeError" (hasattr is then false).                    *)
(***************************************************************************)
EXTENDS Integers, Sequences, FiniteSets, TLC

VARIABLES
    template,           \* the presentation as it was loaded (never changes)
    prs,                \* populate_multi_slide: the loaded presentation (sequence of slides)
    slide_index_usage,  \* populate_multi_slide: slide_index -> occurrences seen so far, minus one
    total_fields,       \* populate_multi_slide: fields written so far
    slides_created,     \* populate_multi_slide: clones made so far
    pc,                 \* populate_multi_slide: "load", "loop", "saved", "failed"
    returned,           \* populate_multi_slide: the (success, message) it returned
    log,                \* history: one record per processed item (target, source, fields)
    slide,              \* find_shape_by_name under test: the slide's shapes
    shape,              \* populate_text_placeholder / populate_table under test: the shape
    call                \* the last call under test: its arguments, locals and result

vars == <<template, prs, slide_index_usage, total_fields, slides_created, pc, returned, log,
          slide, shape, call>>

None == "None"
Raises == "AttributeError"
NL == "\n"

-----------------------------------------------------------------------------
(* Bounds of the model.                                                    *)

MaxShapes == 3      \* shapes on a slide handed to find_shape_by_name
MaxNameLen == 3     \* characters of a looked-up name
MaxTextLen == 3     \* characters of a written text
MaxDataRows == 3    \* rows of a data grid handed to populate_table
MaxItems == 4       \* items of slides_data
MaxRef == 2         \* largest slide_index of an item

-----------------------------------------------------------------------------
(* Sequences and text.                                                     *)

SeqsUpTo(S, n) == UNION {[1..k -> S] : k \in 0..n}

RECURSIVE Split(_)
\* str.split("\n")
Split(text) ==
    IF \A i \in 1..Len(text) : text[i] # NL
    THEN <<text>>
    ELSE LET i == CHOOSE k \in 1..Len(text) :
                      text[k] = NL /\ \A j \in 1..(k - 1) : text[j] # NL
         IN <<SubSeq(text, 1, i - 1)>> \o Split(SubSeq(text, i + 1, Len(text)))

RECURSIVE Join(_)
\* "\n".join(lines)
Join(lines) ==
    IF Len(lines) = 0 THEN <<>>
    ELSE IF Len(lines) = 1 THEN lines[1]
    ELSE lines[1] \o <<NL>> \o Join(Tail(lines))

RECURSIVE Concat(_)
\* "".join(parts)
Concat(parts) == IF Len(parts) = 0 THEN <<>> ELSE parts[1] \o Concat(Tail(parts))

-----------------------------------------------------------------------------
(* Fonts (python-pptx Font and ColorFormat as the service reads and sets   *)
(* them).                                                                  *)

NoColor == [type |-> None, rgb |-> Raises, theme_color |-> Raises]
RGBColor(v) == [type |-> "RGB", rgb |-> v, theme_color |-> "NOT_THEME_COLOR"]
ThemeColor(v) == [type |-> "SCHEME", rgb |-> Raises, theme_color |-> v]

HasAttr(obj, attr) == obj[attr] # Raises

BareFont ==
    [name |-> None, size |-> None, bold |-> None, italic |-> None,
     underline |-> None, color |-> NoColor]

_capture_font_props(font) ==
    [name |-> font.name,
     size |-> font.size,
     bold |-> font.bold,
     italic |-> font.italic,
     underline |-> font.underline,
     color_type |-> IF HasAttr(font.color, "type") THEN font.color.type ELSE None,
     color_rgb |-> IF HasAttr(font.color, "type") /\ font.color.type = "RGB"
                   THEN font.color.rgb ELSE None,
     color_theme |-> IF HasAttr(font.color, "theme_color")
                     THEN font.color.theme_color ELSE None]

\* the apply that looks at the theme colour before the explicit one
_apply_font_props_theme_first(font, props) ==
    LET f1 == IF props.name # None THEN [font EXCEPT !.name = props.name] ELSE font
        f2 == IF props.size # None THEN [f1 EXCEPT !.size = props.size] ELSE f1
        f3 == IF props.bold # None THEN [f2 EXCEPT !.bold = props.bold] ELSE f2
        f4 == IF props.italic # None THEN [f3 EXCEPT !.italic = props.italic] ELSE f3
        f5 == IF props.underline # None
              THEN [f4 EXCEPT !.underline = props.underline] ELSE f4
    IN IF props.color_theme # None
       THEN [f5 EXCEPT !.color = ThemeColor(props.color_theme)]
       ELSE IF props.color_rgb # None
            THEN [f5 EXCEPT !.color = RGBColor(props.color_rgb)]
            ELSE f5

_apply_font_props(font, props) ==
    LET f1 == IF props.name # None THEN [font EXCEPT !.name = props.name] ELSE font
        f2 == IF props.size # None THEN [f1 EXCEPT !.size = props.size] ELSE f1
        f3 == IF props.bold # None THEN [f2 EXCEPT !.bold = props.bold] ELSE f2
        f4 == IF props.italic # None THEN [f3 EXCEPT !.italic = props.italic] ELSE f3
        f5 == IF props.underline # None
              THEN [f4 EXCEPT !.underline = props.underline] ELSE f4
    IN IF props.color_rgb # None
       THEN [f5 EXCEPT !.color = RGBColor(props.color_rgb)]
       ELSE IF props.color_theme # None
            THEN [f5 EXCEPT !.color = ThemeColor(props.color_theme)]
            ELSE f5

-----------------------------------------------------------------------------
(* Text frames: a sequence of paragraphs, each with a paragraph-level font *)
(* and a sequence of runs.                                                 *)

Run(text, font) == [text |-> text, font |-> font]
Paragraph(font, runs) == [font |-> font, runs |-> runs]

\* text_frame.text = text (also cell.text = text): the old paragraphs are
\* dropped and one bare paragraph is made per line; a line that would give
\* an empty run gets no run.
SetText(text) ==
    LET lines == Split(text)
    IN [i \in 1..Len(lines) |->
            Paragraph(BareFont,
                      IF lines[i] = <<>> THEN <<>> ELSE <<Run(lines[i], BareFont)>>)]

\* text_frame.text (also cell.text) read back
ParagraphText(p) == Concat([i \in 1..Len(p.runs) |-> p.runs[i].text])
FrameText(paragraphs) == Join([i \in 1..Len(paragraphs) |-> ParagraphText(paragraphs[i])])

-----------------------------------------------------------------------------
(* Shapes.  kind "text" has a text_frame (and text), kind "table" is a      *)
(* graphic frame with has_table, kind "other" has neither.                 *)

NoTable == [rows |-> <<>>, columns |-> 0]

MkShape(name, kind, paragraphs, table, is_placeholder) ==
    [name |-> name, kind |-> kind, paragraphs |-> paragraphs, table |-> table,
     is_placeholder |-> is_placeholder]

TextShape(name, paragraphs) == MkShape(name, "text", paragraphs, NoTable, FALSE)
TableShape(name, table) == MkShape(name, "table", <<>>, table, FALSE)
OtherShape(name) == MkShape(name, "other", <<>>, NoTable, FALSE)
NoneShape == MkShape(<<>>, "NoneType", <<>>, NoTable, FALSE)

HasTextFrame(s) == s.kind = "text"
HasTextAttr(s) == s.kind = "text"
has_table(s) == s.kind = "table"

-----------------------------------------------------------------------------
(* find_shape_by_name                                                      *)

Digits == {"0", "1", "2", "3", "4", "5", "6", "7", "8", "9"}

DigitValue(c) ==
    CASE c = "0" -> 0 [] c = "1" -> 1 [] c = "2" -> 2 [] c = "3" -> 3 [] c = "4" -> 4
      [] c = "5" -> 5 [] c = "6" -> 6 [] c = "7" -> 7 [] c = "8" -> 8 [] c = "9" -> 9

RECURSIVE ParseInt(_)
\* int(digits)
ParseInt(ds) ==
    IF Len(ds) = 0 THEN 0
    ELSE 10 * ParseInt(SubSeq(ds, 1, Len(ds) - 1)) + DigitValue(ds[Len(ds)])

\* re.match(r'^(.+)_(\d+)$', name): the positions k of an underscore with a
\* non-empty prefix before it and only digits, at least one, after it.
\* Digits hold no underscore, so at most one k qualifies.
SuffixSplits(name) ==
    {k \in 2..(Len(name) - 1) :
        /\ name[k] = "_"
        /\ \A j \in (k + 1)..Len(name) : name[j] \in Digits}

ReMatch(name) == SuffixSplits(name) # {}
MatchGroup1(name) == LET k == CHOOSE k \in SuffixSplits(name) : TRUE
                     IN SubSeq(name, 1, k - 1)
MatchGroup2(name) == LET k == CHOOSE k \in SuffixSplits(name) : TRUE
                     IN SubSeq(name, k + 1, Len(name))

\* [s for s in slide.shapes if s.name == base_name], as positions in slide order
MatchingShapes(shapes, base_name) ==
    LET idx == {i \in 1..Len(shapes) : shapes[i].name = base_name}
    IN [n \in 1..Cardinality(idx) |->
            CHOOSE i \in idx : Cardinality({j \in idx : j < i}) = n - 1]

\* for shape in slide.shapes: if shape.name == name: return shape
DirectMatch(shapes, name) ==
    IF \E i \in 1..Len(shapes) : shapes[i].name = name
    THEN CHOOSE i \in 1..Len(shapes) :
             shapes[i].name = name /\ \A j \in 1..(i - 1) : shapes[j].name # name
    ELSE 0

\* find_shape_by_name without the fall-through to the direct match
find_shape_no_fallback(shapes, name) ==
    IF ReMatch(name)
    THEN LET matching_shapes == MatchingShapes(shapes, MatchGroup1(name))
             index == ParseInt(MatchGroup2(name))
         IN IF index < Len(matching_shapes) THEN matching_shapes[index + 1] ELSE 0
    ELSE DirectMatch(shapes, name)

\* find_shape_by_name ignoring the _N suffix
find_shape_direct_only(shapes, name) == DirectMatch(shapes, name)

\* The position (1-based) in slide.shapes of the shape returned, 0 for None.
find_shape_by_name(shapes, name) ==
    IF ReMatch(name)
       /\ ParseInt(MatchGroup2(name)) < Len(MatchingShapes(shapes, MatchGroup1(name)))
    THEN MatchingShapes(shapes, MatchGroup1(name))[ParseInt(MatchGroup2(name)) + 1]
    ELSE DirectMatch(shapes, name)

-----------------------------------------------------------------------------
(* populate_text_placeholder                                               *)

\* Capture font from the first run if it exists, otherwise paragraph-level
CaptureFirstParagraph(paragraphs) ==
    LET first_para == paragraphs[1]
    IN IF Len(first_para.runs) > 0
       THEN _capture_font_props(first_para.runs[1].font)
       ELSE _capture_font_props(first_para.font)

\* for new_para in text_frame.paragraphs:
\*     if len(new_para.runs) > 0: _apply_font_props(new_para.runs[0].font, saved_font_props)
RestoreAll(paragraphs, saved_font_props) ==
    [i \in 1..Len(paragraphs) |->
        IF Len(paragraphs[i].runs) > 0
        THEN [paragraphs[i] EXCEPT
                 !.runs[1].font = _apply_font_props(@, saved_font_props)]
        ELSE paragraphs[i]]

\* The text-frame part of populate_text_placeholder: capture, replace the
\* text, restore.
\* the text replaced with every line kept but the last
WriteFrameTruncated(paragraphs, text) ==
    LET lines == Split(text)
    IN IF Len(paragraphs) > 0
       THEN RestoreAll(SetText(lines[1]), CaptureFirstParagraph(paragraphs))
       ELSE SetText(lines[1])

WriteFrame(paragraphs, text) ==
    IF Len(paragraphs) > 0
    THEN RestoreAll(SetText(text), CaptureFirstParagraph(paragraphs))
    ELSE SetText(text)

\* Returns the function's result and the shape as the call leaves it.
populate_text_placeholder(s, text) ==
    IF s = NoneShape
    THEN [result |-> FALSE, shape |-> s]
    ELSE IF HasTextFrame(s)
    THEN [result |-> TRUE, shape |-> [s EXCEPT !.paragraphs = WriteFrame(@, text)]]
    ELSE IF HasTextAttr(s)
    THEN [result |-> TRUE, shape |-> [s EXCEPT !.paragraphs = SetText(text)]]
    ELSE [result |-> FALSE, shape |-> s]

-----------------------------------------------------------------------------
(* populate_table                                                          *)
(* A table is [rows, columns]: rows is a sequence of rows, each a sequence *)
(* of `columns` cells, and a cell is its text frame's paragraphs.          *)
(* Positions are 0-based as in the code; sequences are 1-based.            *)

\* the header row never skipped
StartRowZero(skip_header) == 0

\* start_row = 1 if skip_header else 0
StartRow(skip_header) == IF skip_header THEN 1 ELSE 0

\* the cell write of the populate loop: capture, cell.text = str(value), restore
WriteCell(cell, value) ==
    IF Len(cell) > 0
    THEN RestoreAll(SetText(value), CaptureFirstParagraph(cell))
    ELSE SetText(value)

\* the populate loop writing data row i to table row i, whatever skip_header
PopulateRowsNoOffset(table, data, start_row) ==
    [table EXCEPT !.rows =
        [r \in 1..Len(table.rows) |->
            [c \in 1..Len(table.rows[r]) |->
                IF /\ r - 1 < Len(data)
                   /\ c - 1 < Len(data[r])
                   /\ c - 1 < table.columns
                THEN WriteCell(table.rows[r][c], data[r][c])
                ELSE table.rows[r][c]]]]

\* for data_idx, row_data in enumerate(data): ... for col_idx, cell_value in
\* enumerate(row_data): ...  Both loops break at the first index past the
\* table, so exactly the in-range (row, column) pairs are written.
PopulateRows(table, data, start_row) ==
    [table EXCEPT !.rows =
        [r \in 1..Len(table.rows) |->
            [c \in 1..Len(table.rows[r]) |->
                IF /\ r - 1 >= start_row
                   /\ (r - 1) - start_row < Len(data)
                   /\ c - 1 < Len(data[r - start_row])
                   /\ c - 1 < table.columns
                THEN WriteCell(table.rows[r][c], data[r - start_row][c])
                ELSE table.rows[r][c]]]]

\* the clearing loop starting one row late
ClearRowsLate(table, rows_populated) ==
    [table EXCEPT !.rows =
        [r \in 1..Len(table.rows) |->
            [c \in 1..Len(table.rows[r]) |->
                IF r - 1 >= rows_populated + 1 /\ c - 1 < table.columns
                THEN SetText(<<>>)
                ELSE table.rows[r][c]]]]

\* for row_idx in range(rows_populated, len(table.rows)):
\*     for col_idx in range(len(table.columns)): table.cell(row_idx, col_idx).text = ""
ClearRows(table, rows_populated) ==
    [table EXCEPT !.rows =
        [r \in 1..Len(table.rows) |->
            [c \in 1..Len(table.rows[r]) |->
                IF r - 1 >= rows_populated /\ c - 1 < table.columns
                THEN SetText(<<>>)
                ELSE table.rows[r][c]]]]

\* populate_table reporting success on a shape without a table
populate_table_unchecked(table_shape, data, skip_header) ==
    IF ~has_table(table_shape)
    THEN [result |-> TRUE, shape |-> table_shape]
    ELSE LET start_row == StartRow(skip_header)
             populated == PopulateRows(table_shape.table, data, start_row)
             rows_populated == Len(data) + start_row
         IN [result |-> TRUE,
             shape |-> [table_shape EXCEPT !.table = ClearRows(populated, rows_populated)]]

populate_table(table_shape, data, skip_header) ==
    IF ~has_table(table_shape)
    THEN [result |-> FALSE, shape |-> table_shape]
    ELSE LET start_row == StartRow(skip_header)
             populated == PopulateRows(table_shape.table, data, start_row)
             rows_populated == Len(data) + start_row
         IN [result |-> TRUE,
             shape |-> [table_shape EXCEPT !.table = ClearRows(populated, rows_populated)]]

\* table.cell(r, c).text, r and c 0-based
CellText(table, r, c) == FrameText(table.rows[r + 1][c + 1])

-----------------------------------------------------------------------------
(* populate_single_slide                                                   *)
(* data is the dict in insertion order: a sequence of [key, value]; a      *)
(* value is a str, a list (a grid of str), a bool, or a list of numbers    *)
(* (rows then holds one empty entry per number).                           *)

StrValue(text) == [type |-> "str", text |-> text, rows |-> <<>>, flag |-> FALSE]
ListValue(rows) == [type |-> "list", text |-> <<>>, rows |-> rows, flag |-> FALSE]
BoolValue(flag) == [type |-> "bool", text |-> <<>>, rows |-> <<>>, flag |-> flag]
NumberList(n) ==
    [type |-> "list_of_int", text |-> <<>>, rows |-> [i \in 1..n |-> <<>>], flag |-> FALSE]
Field(key, value) == [key |-> key, value |-> value]

\* str(value) of a scalar
Str(value) ==
    IF value.type = "bool"
    THEN (IF value.flag THEN <<"T", "r", "u", "e">> ELSE <<"F", "a", "l", "s", "e">>)
    ELSE value.text

\* the truth value python gives a value
Truthy(value) ==
    CASE value.type = "bool" -> value.flag
      [] value.type = "str" -> value.text # <<>>
      [] value.type = "list" -> value.rows # <<>>
      [] value.type = "list_of_int" -> value.rows # <<>>

\* isinstance(value, list)
IsList(value) == value.type \in {"list", "list_of_int"}

HasKey(data, key) == \E i \in 1..Len(data) : data[i].key = key
Lookup(data, key) == data[CHOOSE i \in 1..Len(data) : data[i].key = key].value

\* data.get(f"{key}_skip_header", False)
SkipHeader(data, key) ==
    LET k == key \o <<"_", "s", "k", "i", "p", "_", "h", "e", "a", "d", "e", "r">>
    IN IF HasKey(data, k) THEN Truthy(Lookup(data, k)) ELSE FALSE

\* for col_idx, cell_value in enumerate(row_data) raises TypeError when
\* row_data is a number; the loop reaches it at the first data row, when
\* that row lies inside the table, before any cell is written.
RowRaises(table_shape, value, skip_header) ==
    /\ has_table(table_shape)
    /\ value.type = "list_of_int"
    /\ Len(value.rows) > 0
    /\ StartRow(skip_header) < Len(table_shape.table.rows)

RECURSIVE TextFieldsUnchecked(_, _, _)
\* the first loop appending the key of every shape found, whatever the write returned
TextFieldsUnchecked(acc, data, i) ==
    IF i > Len(data) THEN acc
    ELSE IF IsList(data[i].value) THEN TextFieldsUnchecked(acc, data, i + 1)
    ELSE LET idx == find_shape_by_name(acc.shapes, data[i].key)
         IN IF idx = 0 THEN TextFieldsUnchecked(acc, data, i + 1)
            ELSE LET r == populate_text_placeholder(acc.shapes[idx], Str(data[i].value))
                 IN TextFieldsUnchecked(
                        [acc EXCEPT !.shapes[idx] = r.shape,
                                    !.fields = Append(@, data[i].key)],
                        data, i + 1)

RECURSIVE TextFields(_, _, _)
\* first loop: every key whose value is not a list, from the i-th on
TextFields(acc, data, i) ==
    IF i > Len(data) THEN acc
    ELSE IF IsList(data[i].value) THEN TextFields(acc, data, i + 1)
    ELSE LET idx == find_shape_by_name(acc.shapes, data[i].key)
         IN IF idx = 0 THEN TextFields(acc, data, i + 1)
            ELSE LET r == populate_text_placeholder(acc.shapes[idx], Str(data[i].value))
                 IN TextFields(
                        [acc EXCEPT !.shapes[idx] = r.shape,
                                    !.fields = IF r.result THEN Append(@, data[i].key) ELSE @],
                        data, i + 1)

RECURSIVE TableFields(_, _, _)
\* second loop: every key whose value is a list, from the i-th on; an
\* exception leaves the loop and the function
TableFields(acc, data, i) ==
    IF i > Len(data) THEN acc
    ELSE IF ~IsList(data[i].value) THEN TableFields(acc, data, i + 1)
    ELSE LET idx == find_shape_by_name(acc.shapes, data[i].key)
         IN IF idx = 0 THEN TableFields(acc, data, i + 1)
            ELSE IF RowRaises(acc.shapes[idx], data[i].value, SkipHeader(data, data[i].key))
            THEN [acc EXCEPT !.raised = TRUE]
            ELSE LET r == populate_table(acc.shapes[idx], data[i].value.rows,
                                         SkipHeader(data, data[i].key))
                 IN TableFields(
                        [acc EXCEPT !.shapes[idx] = r.shape,
                                    !.fields = IF r.result THEN Append(@, data[i].key) ELSE @],
                        data, i + 1)

\* Returns populated_fields and the slide's shapes as the call leaves them;
\* raised tells that it was left by an exception (no value is returned then).
populate_single_slide(shapes, data) ==
    TableFields(TextFields([shapes |-> shapes, fields |-> <<>>, raised |-> FALSE], data, 1),
                data, 1)

-----------------------------------------------------------------------------
(* populate_multi_slide                                                    *)
(* A slide is [layout, shapes]: layout is the sequence of placeholder      *)
(* shapes add_slide puts on a new slide of that layout.  Slide positions   *)
(* are 0-based as in the code.                                             *)

Slide(layout, shapes) == [layout |-> layout, shapes |-> shapes]

\* item.get(key, default)
ItemGet(item, key, default) == IF key \in DOMAIN item THEN item[key] ELSE default

\* the count never moving past the first occurrence
CountUsageStuck(usage, slide_index) == (slide_index :> 0) @@ usage

\* the usage count after the item's slide_index was counted
CountUsage(usage, slide_index) ==
    IF slide_index \notin DOMAIN usage
    THEN (slide_index :> 0) @@ usage
    ELSE [usage EXCEPT ![slide_index] = @ + 1]

\* the first-occurrence test dropped: an existing index is always used in place
UseTemplateAlways(slides, slide_index, occurrence_count) ==
    slide_index < Len(slides)

\* if slide_index < len(prs.slides) and occurrence_count == 0
UseTemplateSlide(slides, slide_index, occurrence_count) ==
    slide_index < Len(slides) /\ occurrence_count = 0

\* slide 0 taken as the source whatever the slide_index
SourceIndexZero(slides, slide_index) == 0

\* the position of source_slide
SourceIndex(slides, slide_index) ==
    IF slide_index < Len(slides) THEN slide_index ELSE 0

\* the clone with the placeholders of add_slide left on it
CloneSlideKeepingPlaceholders(source_slide) ==
    Slide(source_slide.layout, source_slide.layout \o source_slide.shapes)

\* add_slide(slide_layout), removal of the placeholders it added, and the
\* deep copy of every shape of the source, in order
CloneSlide(source_slide) ==
    LET new_shapes == source_slide.layout
        kept == SelectSeq(new_shapes, LAMBDA s : ~s.is_placeholder)
    IN Slide(source_slide.layout, kept \o source_slide.shapes)

\* The (success, message) tuple: message is the text before the numbers
\* or the cause, which follow in their own fields.
NotReturned ==
    [success |-> FALSE, message |-> None, cause |-> None,
     slides_created |-> 0, populated |-> 0, total_fields |-> 0]

\* return False, "Template has no slides"
NoSlides == [NotReturned EXCEPT !.message = "Template has no slides"]

\* except Exception as e: return False, f"Error processing multi-slide template: {str(e)}"
ErrorProcessing(e) ==
    [NotReturned EXCEPT !.message = "Error processing multi-slide template: ", !.cause = e]

\* return True, message
Successfully(created, populated, fields) ==
    [success |-> TRUE,
     message |-> IF created > 0 THEN "Successfully created" ELSE "Successfully populated",
     cause |-> None,
     slides_created |-> created, populated |-> populated, total_fields |-> fields]

\* the iteration putting a new slide before the others, not after them
ProcessItemCloneFirst(item) ==
    /\ pc = "loop"
    /\ Len(log) < MaxItems
    /\ LET slide_index == ItemGet(item, "slide_index", 0)
           data == ItemGet(item, "data", <<>>)
           usage == CountUsage(slide_index_usage, slide_index)
           occurrence_count == usage[slide_index]
           in_place == UseTemplateSlide(prs, slide_index, occurrence_count)
           source == SourceIndex(prs, slide_index)
           slides == IF in_place THEN prs ELSE <<CloneSlide(prs[source + 1])>> \o prs
           target == IF in_place THEN slide_index ELSE 0
           r == populate_single_slide(slides[target + 1].shapes, data)
       IN /\ prs' = [slides EXCEPT ![target + 1].shapes = r.shapes]
          /\ slide_index_usage' = usage
          /\ slides_created' = IF in_place THEN slides_created ELSE slides_created + 1
          /\ total_fields' = IF r.raised THEN total_fields ELSE total_fields + Len(r.fields)
          /\ pc' = IF r.raised THEN "failed" ELSE pc
          /\ returned' = IF r.raised THEN ErrorProcessing("'int' object is not iterable")
                         ELSE returned
          /\ log' = Append(log, [slide_index |-> slide_index,
                                 occurrence_count |-> occurrence_count,
                                 cloned |-> ~in_place,
                                 source |-> IF in_place THEN -1 ELSE source,
                                 target |-> target,
                                 data |-> data,
                                 before |-> slides[target + 1].shapes,
                                 after |-> r.shapes,
                                 raised |-> r.raised,
                                 fields |-> r.fields])
    /\ UNCHANGED <<template, slide, shape, call>>

\* One iteration of `for item in slides_data`; an exception raised by the
\* population ends the run in the except clause.
ProcessItem(item) ==
    /\ pc = "loop"
    /\ Len(log) < MaxItems
    /\ LET slide_index == ItemGet(item, "slide_index", 0)
           data == ItemGet(item, "data", <<>>)
           usage == CountUsage(slide_index_usage, slide_index)
           occurrence_count == usage[slide_index]
           in_place == UseTemplateSlide(prs, slide_index, occurrence_count)
           source == SourceIndex(prs, slide_index)
           slides == IF in_place THEN prs ELSE Append(prs, CloneSlide(prs[source + 1]))
           target == IF in_place THEN slide_index ELSE Len(prs)
           r == populate_single_slide(slides[target + 1].shapes, data)
       IN /\ prs' = [slides EXCEPT ![target + 1].shapes = r.shapes]
          /\ slide_index_usage' = usage
          /\ slides_created' = IF in_place THEN slides_created ELSE slides_created + 1
          /\ total_fields' = IF r.raised THEN total_fields ELSE total_fields + Len(r.fields)
          /\ pc' = IF r.raised THEN "failed" ELSE pc
          /\ returned' = IF r.raised THEN ErrorProcessing("'int' object is not iterable")
                         ELSE returned
          /\ log' = Append(log, [slide_index |-> slide_index,
                                 occurrence_count |-> occurrence_count,
                                 cloned |-> ~in_place,
                                 source |-> IF in_place THEN -1 ELSE source,
                                 target |-> target,
                                 data |-> data,
                                 before |-> slides[target + 1].shapes,
                                 after |-> r.shapes,
                                 raised |-> r.raised,
                                 fields |-> r.fields])
    /\ UNCHANGED <<template, slide, shape, call>>

\* prs = Presentation(template_file); if len(prs.slides) == 0: return False, ...
Load ==
    /\ pc = "load"
    /\ pc' = IF Len(prs) = 0 THEN "failed" ELSE "loop"
    /\ returned' = IF Len(prs) = 0 THEN NoSlides ELSE returned
    /\ UNCHANGED <<template, prs, slide_index_usage, total_fields, slides_created,
                   log, slide, shape, call>>

\* Presentation(template_file) raises: the file is no presentation
LoadRaises ==
    /\ pc = "load"
    /\ pc' = "failed"
    /\ returned' = ErrorProcessing("load")
    /\ UNCHANGED <<template, prs, slide_index_usage, total_fields, slides_created,
                   log, slide, shape, call>>

\* the loop is over: prs.save(output_file); return True, message
Save ==
    /\ pc = "loop"
    /\ pc' = "saved"
    /\ returned' = Successfully(slides_created, Len(log), total_fields)
    /\ UNCHANGED <<template, prs, slide_index_usage, total_fields, slides_created,
                   log, slide, shape, call>>

\* prs.save(output_file) raises: the file cannot be written
SaveRaises ==
    /\ pc = "loop"
    /\ pc' = "failed"
    /\ returned' = ErrorProcessing("save")
    /\ UNCHANGED <<template, prs, slide_index_usage, total_fields, slides_created,
                   log, slide, shape, call>>

-----------------------------------------------------------------------------
(* populate_presentation_from_data: the single-slide format.               *)

\* key.endswith('_table')
EndsWithTable(key) ==
    /\ Len(key) >= 6
    /\ SubSeq(key, Len(key) - 5, Len(key)) = <<"_", "t", "a", "b", "l", "e">>

\* data.get(f"{key}_skip_header", True)
SkipHeaderLegacy(data, key) ==
    LET k == key \o <<"_", "s", "k", "i", "p", "_", "h", "e", "a", "d", "e", "r">>
    IN IF HasKey(data, k) THEN Truthy(Lookup(data, k)) ELSE TRUE

RECURSIVE TextFieldsLegacy(_, _, _)
\* first loop: every key that does not end in _table and whose value is
\* not a list, from the i-th on
TextFieldsLegacy(acc, data, i) ==
    IF i > Len(data) THEN acc
    ELSE IF EndsWithTable(data[i].key) \/ IsList(data[i].value)
    THEN TextFieldsLegacy(acc, data, i + 1)
    ELSE LET idx == find_shape_by_name(acc.shapes, data[i].key)
         IN IF idx = 0 THEN TextFieldsLegacy(acc, data, i + 1)
            ELSE LET r == populate_text_placeholder(acc.shapes[idx], Str(data[i].value))
                 IN TextFieldsLegacy(
                        [acc EXCEPT !.shapes[idx] = r.shape,
                                    !.fields = IF r.result THEN Append(@, data[i].key) ELSE @],
                        data, i + 1)

RECURSIVE TableFieldsLegacy(_, _, _)
\* second loop: every key that ends in _table and whose value is a list,
\* from the i-th on
TableFieldsLegacy(acc, data, i) ==
    IF i > Len(data) THEN acc
    ELSE IF ~(EndsWithTable(data[i].key) /\ IsList(data[i].value))
    THEN TableFieldsLegacy(acc, data, i + 1)
    ELSE LET idx == find_shape_by_name(acc.shapes, data[i].key)
         IN IF idx = 0 THEN TableFieldsLegacy(acc, data, i + 1)
            ELSE IF RowRaises(acc.shapes[idx], data[i].value,
                              SkipHeaderLegacy(data, data[i].key))
            THEN [acc EXCEPT !.raised = TRUE]
            ELSE LET r == populate_table(acc.shapes[idx], data[i].value.rows,
                                         SkipHeaderLegacy(data, data[i].key))
                 IN TableFieldsLegacy(
                        [acc EXCEPT !.shapes[idx] = r.shape,
                                    !.fields = IF r.result THEN Append(@, data[i].key) ELSE @],
                        data, i + 1)

\* except Exception as e: return False, f"Error processing template: {str(e)}"
ErrorProcessingTemplate(e) ==
    [NotReturned EXCEPT !.message = "Error processing template: ", !.cause = e]

\* The returned tuple, the populated fields and the slides of the saved
\* presentation (the loaded ones where nothing is saved).
populate_presentation_from_data(slides, data, slide_index) ==
    IF Len(slides) = 0
    THEN [returned |-> NoSlides, fields |-> <<>>, slides |-> slides]
    ELSE IF slide_index >= Len(slides)
    THEN [returned |-> [NotReturned EXCEPT !.message = "Slide index out of range"],
          fields |-> <<>>, slides |-> slides]
    ELSE LET r == TableFieldsLegacy(
                      TextFieldsLegacy([shapes |-> slides[slide_index + 1].shapes,
                                        fields |-> <<>>, raised |-> FALSE], data, 1),
                      data, 1)
         IN IF r.raised
            THEN [returned |-> ErrorProcessingTemplate("'int' object is not iterable"),
                  fields |-> r.fields, slides |-> slides]
            ELSE [returned |-> [NotReturned EXCEPT !.success = TRUE,
                                                   !.message = "Successfully populated",
                                                   !.total_fields = Len(r.fields)],
                  fields |-> r.fields,
                  slides |-> [slides EXCEPT ![slide_index + 1].shapes = r.shapes]]

-----------------------------------------------------------------------------
(* Templates and inputs of the population run.                             *)

NameX == <<"x">>
NameY == <<"y">>
NameX1 == <<"x", "_", "1">>

ArialFont ==
    [name |-> "Arial", size |-> "Pt14", bold |-> "False", italic |-> "False",
     underline |-> None, color |-> RGBColor("FF0000")]
ThemeFont ==
    [name |-> None, size |-> "Pt18", bold |-> "True", italic |-> None,
     underline |-> "True", color |-> ThemeColor("ACCENT_1")]

Styled(text, font) == <<Paragraph(BareFont, <<Run(text, font)>>)>>

TitlePlaceholder == MkShape(<<"T", "1">>, "text", <<Paragraph(BareFont, <<>>)>>, NoTable, TRUE)

SmallTable ==
    [rows |-> <<<<Styled(<<"h">>, ThemeFont)>>, <<Styled(<<"o">>, ArialFont)>>>>,
     columns |-> 1]

SlideA ==
    Slide(<<TitlePlaceholder>>,
          <<TextShape(NameX, Styled(<<"t">>, ArialFont)),
            TextShape(NameX, Styled(<<"u">>, ThemeFont)),
            TableShape(NameY, SmallTable)>>)
SlideB ==
    Slide(<<>>, <<TitlePlaceholder, TextShape(NameY, Styled(<<"v">>, ThemeFont))>>)

Templates == {<<>>, <<SlideA>>, <<SlideA, SlideB>>}

DataSet ==
    {<<Field(NameX, StrValue(<<"a">>))>>,
     <<Field(NameX1, StrValue(<<"b", NL, "c">>)),
       Field(NameY, ListValue(<<<<<<"d">>>>>>))>>}

Items == {("slide_index" :> i) @@ ("data" :> d) : i \in 0..MaxRef, d \in DataSet}

NoCall == [op |-> "none"]

Init ==
    /\ template \in Templates
    /\ prs = template
    /\ slide_index_usage = <<>>
    /\ total_fields = 0
    /\ slides_created = 0
    /\ pc = "load"
    /\ returned = NotReturned
    /\ log = <<>>
    /\ slide = <<>>
    /\ shape = NoneShape
    /\ call = NoCall

Next ==
    \/ Load
    \/ LoadRaises
    \/ \E item \in Items : ProcessItem(item)
    \/ Save
    \/ SaveRaises

Spec == Init /\ [][Next]_vars

-----------------------------------------------------------------------------
(* The population run on a given slides_data, with fields that miss their  *)
(* shape, fields of the wrong kind for their shape and a list that makes   *)
(* populate_table raise.  call holds the argument.                         *)

MaxRunItems == 3    \* items of a given slides_data

MismatchData == <<Field(NameY, StrValue(<<"a">>)), Field(NameX, StrValue(<<"a">>))>>
GridData == <<Field(NameX1, StrValue(<<"b", NL, "c">>)), Field(NameY, ListValue(<<<<<<"d">>>>>>))>>
RaisingData == <<Field(NameY, NumberList(1)), Field(NameX, StrValue(<<"a">>))>>

RunItems ==
    {("slide_index" :> i) @@ ("data" :> d) :
        i \in {0, 1}, d \in {MismatchData, GridData, RaisingData}}
        \cup {("data" :> MismatchData), ("slide_index" :> 1)}

InitRun ==
    /\ template \in Templates
    /\ prs = template
    /\ slide_index_usage = <<>>
    /\ total_fields = 0
    /\ slides_created = 0
    /\ pc = "load"
    /\ returned = NotReturned
    /\ log = <<>>
    /\ slide = <<>>
    /\ shape = NoneShape
    /\ call \in [op : {"populate_multi_slide"}, slides_data : SeqsUpTo(RunItems, MaxRunItems)]

\* for item in slides_data: the next item of the list
ForItem ==
    /\ Len(log) < Len(call.slides_data)
    /\ ProcessItem(call.slides_data[Len(log) + 1])

\* the save made before the loop is over
SaveEarly == Save

\* the statements after the loop
AfterLoop ==
    /\ Len(log) = Len(call.slides_data)
    /\ Save

AfterLoopRaises ==
    /\ Len(log) = Len(call.slides_data)
    /\ SaveRaises

NextRun ==
    \/ Load
    \/ LoadRaises
    \/ ForItem
    \/ AfterLoop
    \/ AfterLoopRaises

SpecRun == InitRun /\ [][NextRun]_vars

-----------------------------------------------------------------------------
(* The two formats of /populate-pptx on the same template and field map:   *)
(* populate_presentation_from_data on data, and populate_multi_slide on    *)
(* [{"slide_index": 0, "data": data}].  call holds the arguments and,      *)
(* once the single-slide call was made, what it returned and saved.        *)

NameYTable == <<"y", "_", "t", "a", "b", "l", "e">>
NameYTableSkip == NameYTable \o <<"_", "s", "k", "i", "p", "_", "h", "e", "a", "d", "e", "r">>

SlideT ==
    Slide(<<>>,
          <<TextShape(NameX, Styled(<<"t">>, ArialFont)),
            TableShape(NameY, SmallTable),
            TableShape(NameYTable, SmallTable)>>)

FormatTemplates == {<<>>, <<SlideT>>, <<SlideT, SlideB>>}

FormatFields ==
    {Field(NameX, StrValue(<<"a">>)),
     Field(NameY, ListValue(<<<<<<"d">>>>>>)),
     Field(NameY, NumberList(1)),
     Field(NameYTable, ListValue(<<<<<<"d">>>>>>)),
     Field(NameYTable, StrValue(<<"a">>)),
     Field(NameYTableSkip, BoolValue(FALSE)),
     Field(NameYTableSkip, BoolValue(TRUE))}

\* the dicts of at most two of the fields
FormatData ==
    {d \in SeqsUpTo(FormatFields, 2) : \A i, j \in 1..Len(d) : d[i].key = d[j].key => i = j}

InitFormats ==
    /\ template \in FormatTemplates
    /\ prs = template
    /\ slide_index_usage = <<>>
    /\ total_fields = 0
    /\ slides_created = 0
    /\ pc = "load"
    /\ returned = NotReturned
    /\ log = <<>>
    /\ slide = <<>>
    /\ shape = NoneShape
    /\ \E data \in FormatData, slide_index \in 0..MaxRef :
           call = [op |-> "populate_presentation_from_data",
                   data |-> data, slide_index |-> slide_index,
                   slides_data |-> <<("slide_index" :> 0) @@ ("data" :> data)>>,
                   done |-> FALSE, returned |-> NotReturned, fields |-> <<>>,
                   slides |-> <<>>]

\* the single-slide call on the template, with the file read and written
PopulateFromData ==
    /\ ~call.done
    /\ LET r == populate_presentation_from_data(template, call.data, call.slide_index)
       IN call' = [call EXCEPT !.done = TRUE, !.returned = r.returned,
                               !.fields = r.fields, !.slides = r.slides]
    /\ UNCHANGED <<template, prs, slide_index_usage, total_fields, slides_created, pc,
                   returned, log, slide, shape>>

\* the single-slide call with Presentation(template_file) or prs.save raising
PopulateFromDataRaises ==
    /\ ~call.done
    /\ \E e \in {"load", "save"} :
           call' = [call EXCEPT !.done = TRUE, !.returned = ErrorProcessingTemplate(e)]
    /\ UNCHANGED <<template, prs, slide_index_usage, total_fields, slides_created, pc,
                   returned, log, slide, shape>>

NextFormats ==
    \/ Load
    \/ LoadRaises
    \/ ForItem
    \/ AfterLoop
    \/ AfterLoopRaises
    \/ PopulateFromData
    \/ PopulateFromDataRaises

SpecFormats == InitFormats /\ [][NextFormats]_vars

-----------------------------------------------------------------------------
(* /extract-data on all slides of a presentation, and its result handed    *)
(* as slides_data to populate_multi_slide on the same presentation.        *)

MaxDocSlides == 3   \* slides of an extracted presentation

\* table_data: for row in table.rows: [cell.text for cell in row.cells]
ExtractTable(table) ==
    [r \in 1..Len(table.rows) |->
        [c \in 1..Len(table.rows[r]) |-> FrameText(table.rows[r][c])]]

\* what one shape adds to slide_shapes: a table always, a text only when
\* it is not empty, any other shape nothing
ShapeData(s) ==
    IF has_table(s)
    THEN <<[name |-> s.name, type |-> "table", content |-> ListValue(ExtractTable(s.table))]>>
    ELSE IF HasTextFrame(s) /\ FrameText(s.paragraphs) # <<>>
    THEN <<[name |-> s.name, type |-> "text", content |-> StrValue(FrameText(s.paragraphs))]>>
    ELSE <<>>

\* slide_shapes of one slide, in shape order
SlideShapes(shapes) == Concat([i \in 1..Len(shapes) |-> ShapeData(shapes[i])])

\* all_slides_data: {"slide_index": slide_idx, "shapes": slide_shapes} per slide
ExtractAll(slides) ==
    [i \in 1..Len(slides) |->
        ("slide_index" :> i - 1) @@ ("shapes" :> SlideShapes(slides[i].shapes))]

Documents == UNION {[1..k -> {SlideA, SlideB, SlideT}] : k \in 1..MaxDocSlides}

InitRoundTrip ==
    /\ template \in Documents
    /\ prs = template
    /\ slide_index_usage = <<>>
    /\ total_fields = 0
    /\ slides_created = 0
    /\ pc = "extract"
    /\ returned = NotReturned
    /\ log = <<>>
    /\ slide = <<>>
    /\ shape = NoneShape
    /\ call = [op |-> "extract_data", slides_data |-> <<>>]

\* extract_data with extract_all; its "slides" list is then the slides_data
\* that /populate-pptx hands to populate_multi_slide
ExtractData ==
    /\ pc = "extract"
    /\ pc' = "load"
    /\ call' = [call EXCEPT !.slides_data = ExtractAll(template)]
    /\ UNCHANGED <<template, prs, slide_index_usage, total_fields, slides_created,
                   returned, log, slide, shape>>

NextRoundTrip ==
    \/ ExtractData
    \/ Load
    \/ LoadRaises
    \/ ForItem
    \/ AfterLoop
    \/ AfterLoopRaises

SpecRoundTrip == InitRoundTrip /\ [][NextRoundTrip]_vars

-----------------------------------------------------------------------------
(* The population run is idle in the specifications that exercise one      *)
(* function.                                                               *)

RunIdle ==
    /\ template = <<>>
    /\ prs = <<>>
    /\ slide_index_usage = <<>>
    /\ total_fields = 0
    /\ slides_created = 0
    /\ pc = "idle"
    /\ returned = NotReturned
    /\ log = <<>>

RunVars == <<template, prs, slide_index_usage, total_fields, slides_created, pc, returned, log>>

-----------------------------------------------------------------------------
(* find_shape_by_name on every slide of up to MaxShapes shapes.            *)

ShapeNames == {NameX, NameY, NameX1, <<"x", "_", "5">>}
NameAlphabet == {"x", "_", "0", "1"}
LookupNames ==
    SeqsUpTo(NameAlphabet, MaxNameLen) \cup ShapeNames
        \cup {<<"x", "_", "0", "1">>, <<"x", "_", "1", "_", "0">>}

ResolveSlides ==
    {[i \in 1..Len(ns) |-> OtherShape(ns[i])] : ns \in SeqsUpTo(ShapeNames, MaxShapes)}

InitResolve ==
    /\ RunIdle
    /\ slide \in ResolveSlides
    /\ shape = NoneShape
    /\ call = NoCall

Resolve(name) ==
    /\ call = NoCall
    /\ call' = [op |-> "find_shape_by_name", name |-> name,
                result |-> find_shape_by_name(slide, name)]
    /\ UNCHANGED <<RunVars, slide, shape>>

NextResolve == \E name \in LookupNames : Resolve(name)

SpecResolve == InitResolve /\ [][NextResolve]_vars

-----------------------------------------------------------------------------
(* populate_text_placeholder, any sequence of calls on one shape.          *)

TextAlphabet == {"a", NL, "*", "_"}
Texts == SeqsUpTo(TextAlphabet, MaxTextLen)

TextShapes ==
    {TextShape(NameX, Styled(<<"t">>, ArialFont)),
     TextShape(NameX, Styled(<<"t">>, ThemeFont)),
     TextShape(NameX, Styled(<<"t">>, BareFont)),
     TextShape(NameX, <<Paragraph(ArialFont, <<>>)>>),
     TextShape(NameX, <<Paragraph(BareFont, <<Run(<<"t">>, ThemeFont), Run(<<"u">>, ArialFont)>>),
                        Paragraph(BareFont, <<Run(<<"v">>, ArialFont)>>)>>),
     TextShape(NameX, <<>>),
     TableShape(NameY, SmallTable),
     OtherShape(NameY)}

InitText ==
    /\ RunIdle
    /\ slide = <<>>
    /\ shape \in TextShapes
    /\ call = NoCall

\* captured tells whether the call took the branch that captures; then
\* saved_font_props is what it captured.
WriteText(text) ==
    LET r == populate_text_placeholder(shape, text)
        captured == HasTextFrame(shape) /\ Len(shape.paragraphs) > 0
    IN /\ shape' = r.shape
       /\ call' = [op |-> "populate_text_placeholder", text |-> text,
                   result |-> r.result, captured |-> captured,
                   saved_font_props |-> IF captured
                                        THEN CaptureFirstParagraph(shape.paragraphs)
                                        ELSE _capture_font_props(BareFont)]
       /\ UNCHANGED <<RunVars, slide>>

NextText == \E text \in Texts : WriteText(text)

SpecText == InitText /\ [][NextText]_vars

\* The same calls, with the shape as the template has it kept in slide.
InitTextTemplate ==
    /\ RunIdle
    /\ shape \in TextShapes
    /\ slide = <<shape>>
    /\ call = NoCall

SpecTextTemplate == InitTextTemplate /\ [][NextText]_vars

-----------------------------------------------------------------------------
(* Inline markdown: _has_markdown and _parse_markdown_inline, which        *)
(* src/test_markdown_formatting.py imports from service.  Their code is    *)
(* not in src/service.py; they are modelled from section 4.2 of the        *)
(* specification and from what the tests assert.                           *)

BS == "\\"
Star1 == <<"*">>
Star2 == <<"*", "*">>
Star3 == <<"*", "*", "*">>
Under2 == <<"_", "_">>

\* no character taken as escaped
EscapedNever(text, p) == FALSE

\* A backslash immediately before `*` or `_` escapes that character.
Escaped(text, p) == p > 1 /\ text[p - 1] = BS

\* the marker m stands at position p and is no escaped character
MarkerAt(text, m, p) ==
    /\ p >= 1
    /\ p + Len(m) - 1 <= Len(text)
    /\ SubSeq(text, p, p + Len(m) - 1) = m
    /\ ~Escaped(text, p)

Form(open, close, bold, italic, underline) ==
    [open |-> open, close |-> close, bold |-> bold, italic |-> italic, underline |-> underline]

\* the marker grammar with the shortest opening marker first
MarkerFormsShortestFirst ==
    <<Form(Star1, Star1, FALSE, TRUE, FALSE),
      Form(Under2, Under2, FALSE, FALSE, TRUE),
      Form(Star2, Star2, TRUE, FALSE, FALSE),
      Form(Under2 \o Star1, Star1 \o Under2, FALSE, TRUE, TRUE),
      Form(Star1 \o Under2, Under2 \o Star1, FALSE, TRUE, TRUE),
      Form(Star3, Star3, TRUE, TRUE, FALSE),
      Form(Under2 \o Star2, Star2 \o Under2, TRUE, FALSE, TRUE),
      Form(Star2 \o Under2, Under2 \o Star2, TRUE, FALSE, TRUE),
      Form(Under2 \o Star3, Star3 \o Under2, TRUE, TRUE, TRUE),
      Form(Star3 \o Under2, Under2 \o Star3, TRUE, TRUE, TRUE)>>

\* The marker grammar, the longest opening marker first.
MarkerForms ==
    <<Form(Star3 \o Under2, Under2 \o Star3, TRUE, TRUE, TRUE),
      Form(Under2 \o Star3, Star3 \o Under2, TRUE, TRUE, TRUE),
      Form(Star2 \o Under2, Under2 \o Star2, TRUE, FALSE, TRUE),
      Form(Under2 \o Star2, Star2 \o Under2, TRUE, FALSE, TRUE),
      Form(Star3, Star3, TRUE, TRUE, FALSE),
      Form(Star1 \o Under2, Under2 \o Star1, FALSE, TRUE, TRUE),
      Form(Under2 \o Star1, Star1 \o Under2, FALSE, TRUE, TRUE),
      Form(Star2, Star2, TRUE, FALSE, FALSE),
      Form(Under2, Under2, FALSE, FALSE, TRUE),
      Form(Star1, Star1, FALSE, TRUE, FALSE)>>

\* the positions at which form f, opened at p, can close
Closings(text, f, p) ==
    {q \in (p + Len(f.open))..Len(text) : MarkerAt(text, f.close, q)}

\* form f matches at p: it opens there and closes somewhere after
FormMatches(text, f, p) == MarkerAt(text, f.open, p) /\ Closings(text, f, p) # {}

\* the forms that match at p, as positions in MarkerForms
MatchingForms(text, p) ==
    {n \in 1..Len(MarkerForms) : FormMatches(text, MarkerForms[n], p)}

\* The match at p: first form in grammar order, non-greedy (the nearest
\* closing marker).
MatchAt(text, p) ==
    LET n == CHOOSE n \in MatchingForms(text, p) : \A k \in MatchingForms(text, p) : n <= k
        f == MarkerForms[n]
        q == CHOOSE q \in Closings(text, f, p) : \A r \in Closings(text, f, p) : q <= r
    IN [form |-> f, start |-> p, content |-> SubSeq(text, p + Len(f.open), q - 1),
        end |-> q + Len(f.close) - 1]

RECURSIVE Unescape(_)
\* `\*` and `\_` replaced by `*` and `_`
Unescape(t) ==
    IF Len(t) = 0 THEN <<>>
    ELSE IF Len(t) >= 2 /\ t[1] = BS /\ t[2] \in {"*", "_"}
    THEN <<t[2]>> \o Unescape(SubSeq(t, 3, Len(t)))
    ELSE <<t[1]>> \o Unescape(Tail(t))

Segment(text, bold, italic, underline) ==
    [text |-> Unescape(text), bold |-> bold, italic |-> italic, underline |-> underline]
PlainSegment(text) == Segment(text, FALSE, FALSE, FALSE)

\* the positions from `from` on at which some form matches
MatchStarts(text, from) == {p \in from..Len(text) : MatchingForms(text, p) # {}}

RECURSIVE ScanDroppingTail(_, _)
\* the scan leaving out the plain text after the last match
ScanDroppingTail(text, from) ==
    IF MatchStarts(text, from) = {}
    THEN <<>>
    ELSE LET p == CHOOSE p \in MatchStarts(text, from) :
                      \A r \in MatchStarts(text, from) : p <= r
             m == MatchAt(text, p)
         IN (IF p > from THEN <<PlainSegment(SubSeq(text, from, p - 1))>> ELSE <<>>)
            \o <<Segment(m.content, m.form.bold, m.form.italic, m.form.underline)>>
            \o ScanDroppingTail(text, m.end + 1)

RECURSIVE ScanKeepingGaps(_, _)
\* the scan emitting the text between two matches even when it is empty
ScanKeepingGaps(text, from) ==
    IF MatchStarts(text, from) = {}
    THEN <<PlainSegment(SubSeq(text, from, Len(text)))>>
    ELSE LET p == CHOOSE p \in MatchStarts(text, from) :
                      \A r \in MatchStarts(text, from) : p <= r
             m == MatchAt(text, p)
         IN <<PlainSegment(SubSeq(text, from, p - 1))>>
            \o <<Segment(m.content, m.form.bold, m.form.italic, m.form.underline)>>
            \o ScanKeepingGaps(text, m.end + 1)

RECURSIVE Scan(_, _)
\* Left to right over the unconsumed text: the leftmost match, the plain
\* text before it when there is some, and on from the end of the match.
Scan(text, from) ==
    IF MatchStarts(text, from) = {}
    THEN (IF from <= Len(text) THEN <<PlainSegment(SubSeq(text, from, Len(text)))>> ELSE <<>>)
    ELSE LET p == CHOOSE p \in MatchStarts(text, from) :
                      \A r \in MatchStarts(text, from) : p <= r
             m == MatchAt(text, p)
         IN (IF p > from THEN <<PlainSegment(SubSeq(text, from, p - 1))>> ELSE <<>>)
            \o <<Segment(m.content, m.form.bold, m.form.italic, m.form.underline)>>
            \o Scan(text, m.end + 1)

\* the segments of text; a text without a match is one plain segment
_parse_markdown_inline(text) ==
    IF Scan(text, 1) = <<>> THEN <<PlainSegment(text)>> ELSE Scan(text, 1)

\* text contains `**` or `__`, a solitary `*` not counted
_has_markdown_pairs_only(text) ==
    \E p \in 1..Len(text) : MarkerAt(text, Star2, p) \/ MarkerAt(text, Under2, p)

\* text contains `**`, a solitary `*` or `__`, none of them escaped
_has_markdown(text) ==
    \E p \in 1..Len(text) : MarkerAt(text, Star1, p) \/ MarkerAt(text, Under2, p)

MaxMarkupLen == 5      \* characters of a text of any shape
MaxContentLen == 2     \* characters of a marker-free content

MarkupAlphabet == {"a", "*", "_", BS}
Contents == SeqsUpTo({"a", "b"}, MaxContentLen)
Words == Contents \ {<<>>}

\* X wrapped in each form of the grammar
WrappedTexts ==
    {MarkerForms[n].open \o X \o MarkerForms[n].close : n \in 1..Len(MarkerForms), X \in Contents}
\* `**` before plain text, `**A**B**C**`, `**B***I*`
UnmatchedTexts == {Star2 \o P : P \in Words}
NestedTexts ==
    {Star2 \o A \o Star2 \o B \o Star2 \o C \o Star2 : A \in Words, B \in Words, C \in Words}
AdjacentTexts == {Star2 \o B \o Star2 \o Star1 \o I \o Star1 : B \in Words, I \in Words}

MarkupTexts ==
    SeqsUpTo(MarkupAlphabet, MaxMarkupLen)
        \cup WrappedTexts \cup UnmatchedTexts \cup NestedTexts \cup AdjacentTexts

InitMarkup ==
    /\ RunIdle
    /\ slide = <<>>
    /\ shape = NoneShape
    /\ \E text \in MarkupTexts :
           call = [op |-> "markdown", text |-> text, detected |-> FALSE,
                   has_markdown |-> FALSE, parsed |-> FALSE, segments |-> <<>>]

HasMarkdown ==
    /\ ~call.detected
    /\ call' = [call EXCEPT !.detected = TRUE, !.has_markdown = _has_markdown(call.text)]
    /\ UNCHANGED <<RunVars, slide, shape>>

ParseMarkdownInline ==
    /\ ~call.parsed
    /\ call' = [call EXCEPT !.parsed = TRUE, !.segments = _parse_markdown_inline(call.text)]
    /\ UNCHANGED <<RunVars, slide, shape>>

NextMarkup == HasMarkdown \/ ParseMarkdownInline

SpecMarkup == InitMarkup /\ [][NextMarkup]_vars

-----------------------------------------------------------------------------
(* populate_table, one call on a table of the template.                    *)

CellA == <<"a">>
CellB == <<"b", NL, "c">>
CellEmpty == <<>>

RowSet == {<<>>, <<CellA>>, <<CellB, CellA>>, <<CellA, CellEmpty, CellB>>}
Grids == SeqsUpTo(RowSet, MaxDataRows)

Table4x2 ==
    [rows |-> <<<<Styled(<<"h">>, ThemeFont), Styled(<<"i">>, ThemeFont)>>,
                <<Styled(<<"o">>, ArialFont), Styled(<<"p">>, ThemeFont)>>,
                <<Styled(<<"q">>, ArialFont), <<Paragraph(ArialFont, <<>>)>>>>,
                <<Styled(<<"r">>, BareFont), Styled(<<"s">>, ArialFont)>>>>,
     columns |-> 2]
Table3x2 ==
    [rows |-> <<<<Styled(<<"h">>, ArialFont), Styled(<<"i">>, ArialFont)>>,
                <<Styled(<<"o">>, ThemeFont) \o Styled(<<"p">>, ArialFont),
                  Styled(<<"q">>, ThemeFont)>>,
                <<<<Paragraph(BareFont, <<>>)>>, Styled(<<"s">>, ThemeFont)>>>>,
     columns |-> 2]

TableShapes ==
    {TableShape(NameY, Table4x2), TableShape(NameY, Table3x2),
     TableShape(NameY, SmallTable), TextShape(NameY, Styled(<<"t">>, ArialFont))}

InitTable ==
    /\ RunIdle
    /\ slide = <<>>
    /\ shape \in TableShapes
    /\ call = NoCall

WriteTable(data, skip_header) ==
    /\ call = NoCall
    /\ LET r == populate_table(shape, data, skip_header)
       IN /\ shape' = r.shape
          /\ call' = [op |-> "populate_table", data |-> data,
                      skip_header |-> skip_header, result |-> r.result,
                      before |-> shape]
    /\ UNCHANGED <<RunVars, slide>>

NextTable == \E data \in Grids, skip_header \in BOOLEAN : WriteTable(data, skip_header)

SpecTable == InitTable /\ [][NextTable]_vars

-----------------------------------------------------------------------------
(* populate_table, any sequence of calls on one table; slide keeps the     *)
(* shape as the template has it.                                           *)

RepeatGrids ==
    {<<>>, <<<<<<"d">>>>>>, <<<<<<"d">>>>, <<<<"e">>, <<"d">>>>>>,
     <<<<<<"e">>, <<>>>>, <<<<"d">>>>, <<<<"d", NL, "e">>>>>>}
RepeatTables == {SmallTable, Table3x2, Table4x2}

InitTables ==
    /\ RunIdle
    /\ shape \in {TableShape(NameY, T) : T \in RepeatTables}
    /\ slide = <<shape>>
    /\ call = NoCall

WriteTableAgain(data, skip_header) ==
    /\ LET r == populate_table(shape, data, skip_header)
       IN /\ shape' = r.shape
          /\ call' = [op |-> "populate_table", data |-> data,
                      skip_header |-> skip_header, result |-> r.result]
    /\ UNCHANGED <<RunVars, slide>>

NextTables == \E data \in RepeatGrids, skip_header \in BOOLEAN : WriteTableAgain(data, skip_header)

SpecTables == InitTables /\ [][NextTables]_vars

-----------------------------------------------------------------------------
(* Properties of the population run (Spec).                                *)

Processed == 1..Len(log)
InPlaceOn(p) == {i \in Processed : ~log[i].cloned /\ log[i].target = p}
OperatedOn(p) == {i \in Processed : log[i].target = p}
Occurrences(r) == {i \in Processed : log[i].slide_index = r}

\* Every item so far carries the same slide_index, a position of the template.
SameReferenceRun ==
    /\ Len(log) >= 1
    /\ log[1].slide_index < Len(template)
    /\ \A i \in Processed : log[i].slide_index = log[1].slide_index

\* C1: in a run of k >= 1 items that all carry the same slide_index r, a
\* position of the template, the first item populates slide r in place and
\* each of the other k-1 items makes one clone; slides_created = k-1 and the
\* presentation holds k-1 slides more than the template.
C1_RepeatedReference ==
    SameReferenceRun =>
        /\ ~log[1].cloned
        /\ log[1].target = log[1].slide_index
        /\ \A i \in 2..Len(log) : log[i].cloned
        /\ slides_created = Len(log) - 1
        /\ Len(prs) = Len(template) + Len(log) - 1

C1_ThreeOnOneSlide ==
    /\ pc = "saved"
    /\ SameReferenceRun
    /\ Len(template) = 1
    /\ Len(log) = 3
    /\ slides_created = 2
    /\ Len(prs) = 3

\* C2: whenever an item clones, the source is the slide at slide_index if
\* that position exists in the template as loaded, else the slide at
\* position 0; so the source is never a slide made by an earlier clone.
C2_CloneSourceFromTemplate ==
    \A i \in Processed :
        log[i].cloned =>
            /\ log[i].source =
                   (IF log[i].slide_index < Len(template) THEN log[i].slide_index ELSE 0)
            /\ log[i].source < Len(template)

\* The items so far name every position 0..N-1 of the N-slide template
\* exactly M times each, in any order.
Stamping(M) ==
    /\ Len(template) >= 1
    /\ Len(log) = Len(template) * M
    /\ \A r \in 0..(Len(template) - 1) : Cardinality(Occurrences(r)) = M

\* C3: on a template of N slides, after N*M items in which every slide_index
\* 0..N-1 appears exactly M times, each template slide was populated in
\* place exactly once, N*(M-1) clones were made, and the presentation holds
\* exactly N*M slides, each operated on by exactly one item.
C3_StampingNxM ==
    \A M \in 1..MaxItems :
        Stamping(M) =>
            /\ \A r \in 0..(Len(template) - 1) : Cardinality(InPlaceOn(r)) = 1
            /\ slides_created = Len(template) * (M - 1)
            /\ Len(prs) = Len(template) * M
            /\ \A p \in 0..(Len(prs) - 1) : Cardinality(OperatedOn(p)) = 1

C3_TwoByTwoInterleaved ==
    /\ pc = "saved"
    /\ Stamping(2)
    /\ Len(template) = 2
    /\ log[1].slide_index = 1
    /\ log[2].slide_index = 0
    /\ log[3].slide_index = 0
    /\ slides_created = 2
    /\ Len(prs) = 4

-----------------------------------------------------------------------------
(* Properties of find_shape_by_name (SpecResolve).                         *)

Resolved == call.op = "find_shape_by_name"
SameNamed(base) == {i \in 1..Len(slide) : slide[i].name = base}
\* the first shape in slide order named exactly `name`, or none
IsFirstNamed(res, name) ==
    IF SameNamed(name) = {}
    THEN res = 0
    ELSE res \in SameNamed(name) /\ \A j \in SameNamed(name) : res <= j

\* C4: for a name <base>_<N> on a slide with at least N+1 shapes named
\* <base>, the lookup returns the N-th (0-based, in slide order) of the
\* shapes named <base>; for a name without such a suffix it returns the
\* first shape named exactly so, or None when there is none.
C4_SuffixResolution ==
    Resolved =>
        IF ReMatch(call.name)
        THEN LET same == SameNamed(MatchGroup1(call.name))
                 N == ParseInt(MatchGroup2(call.name))
             IN Cardinality(same) >= N + 1 =>
                    /\ call.result \in same
                    /\ Cardinality({j \in same : j < call.result}) = N
        ELSE IsFirstNamed(call.result, call.name)

C4_SecondOfTwo ==
    /\ Resolved
    /\ [i \in 1..Len(slide) |-> slide[i].name] = <<NameX, NameX, NameY>>
    /\ call.name = NameX1
    /\ call.result = 2

\* the lookup is of a name <base>_<N> and fewer than N+1 shapes are named <base>
TooFewSameNamed ==
    /\ Resolved
    /\ ReMatch(call.name)
    /\ Cardinality(SameNamed(MatchGroup1(call.name))) < ParseInt(MatchGroup2(call.name)) + 1

\* C5 as stated: for a name <base>_<N> on a slide with fewer than N+1 shapes
\* named <base>, the lookup returns None, whatever the slide holds.
C5_NoFallback == TooFewSameNamed => call.result = 0

\* C5 amended: for a name <base>_<N> on a slide with fewer than N+1 shapes
\* named <base>, the lookup returns the first shape whose name is literally
\* <base>_<N>, and None only when the slide holds no such shape.
C5_FallbackToLiteralName == TooFewSameNamed => IsFirstNamed(call.result, call.name)

C5_LiteralNameFound ==
    /\ TooFewSameNamed
    /\ [i \in 1..Len(slide) |-> slide[i].name] = <<NameX, NameY, NameX1>>
    /\ call.name = NameX1
    /\ call.result = 3

-----------------------------------------------------------------------------
(* Properties of populate_table (SpecTable).                               *)

TableWritten == call.op = "populate_table" /\ has_table(call.before)
DataStart == IF call.skip_header THEN 1 ELSE 0
NumRows == Len(shape.table.rows)

\* C6: data row i goes to table row startRow + i and data column j to table
\* column j; rows and columns past the table are dropped (the table keeps
\* its size), every in-range cell reads back its supplied value, and the
\* call returns True.
C6_RowPlacement ==
    TableWritten =>
        /\ call.result
        /\ Len(shape.table.rows) = Len(call.before.table.rows)
        /\ shape.table.columns = call.before.table.columns
        /\ \A r \in 1..NumRows : Len(shape.table.rows[r]) = shape.table.columns
        /\ \A i \in 0..(Len(call.data) - 1) :
               \A j \in 0..(Len(call.data[i + 1]) - 1) :
                   (DataStart + i < NumRows /\ j < shape.table.columns) =>
                       CellText(shape.table, DataStart + i, j) = call.data[i + 1][j + 1]

C6_OverflowBothWays ==
    /\ TableWritten
    /\ call.result
    /\ call.skip_header
    /\ NumRows = 3
    /\ call.data = <<<<CellB, CellA>>, <<CellA, CellEmpty, CellB>>, <<CellA>>>>
    /\ CellText(shape.table, 1, 0) = CellB
    /\ CellText(shape.table, 2, 1) = CellEmpty

\* C7: after a successful call every table row with index
\* >= startRow + len(data) reads empty in every cell.
C7_UnwrittenRowsCleared ==
    (TableWritten /\ call.result) =>
        \A r \in (DataStart + Len(call.data))..(NumRows - 1) :
            \A c \in 0..(shape.table.columns - 1) :
                CellText(shape.table, r, c) = <<>>

C7_LastRowOfFourCleared ==
    /\ TableWritten
    /\ call.result
    /\ call.skip_header
    /\ NumRows = 4
    /\ call.data = <<<<CellA>>, <<CellB, CellA>>>>
    /\ CellText(call.before.table, 3, 0) # <<>>
    /\ CellText(shape.table, 1, 0) = CellA
    /\ CellText(shape.table, 2, 1) = CellA
    /\ CellText(shape.table, 3, 0) = <<>>
    /\ CellText(shape.table, 3, 1) = <<>>

\* C8: with skip_header true, table row 0 is left as it was, for every data
\* grid.
C8_HeaderPreserved ==
    (TableWritten /\ call.result /\ call.skip_header) =>
        shape.table.rows[1] = call.before.table.rows[1]

C8_HeaderKeptOnOverflow ==
    /\ TableWritten
    /\ call.result
    /\ call.skip_header
    /\ Len(call.data) >= NumRows
    /\ shape.table.rows[1] = call.before.table.rows[1]
    /\ shape.table.rows[2] # call.before.table.rows[2]

\* C26: after a successful call every cell of every row from start_row on
\* holds the value this call supplied for it or reads empty; a cell for
\* which a short data row supplied no value does not keep what it held.
C26_NoStaleCell ==
    (TableWritten /\ call.result) =>
        \A r \in DataStart..(NumRows - 1) :
            \A c \in 0..(shape.table.columns - 1) :
                \/ CellText(shape.table, r, c) = <<>>
                \/ /\ r - DataStart < Len(call.data)
                   /\ c < Len(call.data[r - DataStart + 1])
                   /\ CellText(shape.table, r, c) = call.data[r - DataStart + 1][c + 1]

-----------------------------------------------------------------------------
(* Properties of populate_text_placeholder (SpecText).                     *)

TextWritten == call.op = "populate_text_placeholder" /\ HasTextFrame(shape)

\* font holds every attribute that props holds a value for
Carries(font, props) ==
    \A k \in DOMAIN props :
        props[k] # None => _capture_font_props(font)[k] = props[k]

\* a paragraph carries props on its first run, or at paragraph level when it
\* has no run
ParagraphCarries(p, props) ==
    IF Len(p.runs) > 0 THEN Carries(p.runs[1].font, props) ELSE Carries(p.font, props)

\* C9: the props captured before a write are carried by every paragraph the
\* write creates: after writing a text with k line breaks there are k+1
\* paragraphs and each carries every attribute the props hold.
C9_EveryParagraphCarries ==
    (TextWritten /\ call.captured) =>
        /\ Len(shape.paragraphs) = Len(Split(call.text))
        /\ \A i \in 1..Len(shape.paragraphs) :
               ParagraphCarries(shape.paragraphs[i], call.saved_font_props)

PlainText(text) == \A i \in 1..Len(text) : text[i] \notin {"*", "_"}
PlainWrite == TextWritten /\ PlainText(call.text)

\* the run holds the line and no bold, italic or underline but the captured one
PlainRun(run, line) ==
    /\ run.text = line
    /\ run.font.bold = call.saved_font_props.bold
    /\ run.font.italic = call.saved_font_props.italic
    /\ run.font.underline = call.saved_font_props.underline

\* C10 as stated: writing a text without `*` and `_` returns True, the shape
\* reads back the text verbatim, and every line is exactly one run.
C10_OneRunPerLine ==
    PlainWrite =>
        /\ call.result
        /\ FrameText(shape.paragraphs) = call.text
        /\ Len(shape.paragraphs) = Len(Split(call.text))
        /\ \A i \in 1..Len(shape.paragraphs) :
               /\ Len(shape.paragraphs[i].runs) = 1
               /\ PlainRun(shape.paragraphs[i].runs[1], Split(call.text)[i])

\* C10 amended: writing a text without `*` and `_` returns True, the shape
\* reads back the text verbatim, every non-empty line is exactly one run
\* with no parsed style, and an empty line is a paragraph with no run.
C10_OneRunPerNonEmptyLine ==
    PlainWrite =>
        /\ call.result
        /\ FrameText(shape.paragraphs) = call.text
        /\ Len(shape.paragraphs) = Len(Split(call.text))
        /\ \A i \in 1..Len(shape.paragraphs) :
               IF Split(call.text)[i] = <<>>
               THEN shape.paragraphs[i].runs = <<>>
               ELSE /\ Len(shape.paragraphs[i].runs) = 1
                    /\ PlainRun(shape.paragraphs[i].runs[1], Split(call.text)[i])

C10_PlainLinesWritten ==
    /\ PlainWrite
    /\ call.result
    /\ call.text = <<"a", NL, NL>>
    /\ Len(shape.paragraphs) = 3
    /\ Len(shape.paragraphs[1].runs) = 1
    /\ shape.paragraphs[3].runs = <<>>
    /\ call.saved_font_props.name = "Arial"

\* C14: writing the same text twice in succession leaves the shape as the
\* first write left it: the second of two successive calls with one text
\* changes nothing (same paragraphs, runs, run text and fonts).
C14_WriteTwiceSame ==
    [][(call.op = "populate_text_placeholder" /\ call'.text = call.text) => shape' = shape]_vars

\* a call on a shape with a text frame that has a paragraph: the call captures
CaptureStep ==
    /\ call'.op = "populate_text_placeholder"
    /\ HasTextFrame(shape)
    /\ Len(shape.paragraphs) > 0

FontAttrs == {"name", "size", "bold", "italic", "underline"}

\* C25: the capture takes the font of the first run of the first paragraph
\* when that paragraph has a run and the paragraph's font otherwise, and
\* what is unset there is unset in the captured props; the apply gives the
\* first run of every new paragraph each captured attribute that is set and
\* leaves the others as the new run has them, and gives it the explicit
\* colour when one was captured, else the theme colour when one was
\* captured, else leaves its colour alone.
C25_CaptureApplyPolicies ==
    [][CaptureStep =>
          LET first_para == shape.paragraphs[1]
              src == IF Len(first_para.runs) > 0 THEN first_para.runs[1].font
                     ELSE first_para.font
              snap == call'.saved_font_props
          IN /\ call'.captured
             /\ \A a \in FontAttrs : snap[a] = src[a]
             /\ snap.color_rgb = (IF src.color.type = "RGB" THEN src.color.rgb ELSE None)
             /\ src.color.type = "SCHEME" => snap.color_theme = src.color.theme_color
             /\ src.color.type = None => snap.color_theme = None
             /\ \A i \in 1..Len(shape'.paragraphs) :
                    Len(shape'.paragraphs[i].runs) > 0 =>
                        LET font == shape'.paragraphs[i].runs[1].font
                        IN /\ \A a \in FontAttrs :
                                  font[a] = (IF snap[a] # None THEN snap[a] ELSE BareFont[a])
                           /\ font.color =
                                  (IF snap.color_rgb # None THEN RGBColor(snap.color_rgb)
                                   ELSE IF snap.color_theme # None
                                        THEN ThemeColor(snap.color_theme)
                                        ELSE BareFont.color)]_vars

C25_ThemeColourOnBothLines ==
    /\ TextWritten
    /\ call.captured
    /\ call.saved_font_props.name = None
    /\ call.saved_font_props.color_rgb = None
    /\ call.saved_font_props.color_theme = "ACCENT_1"
    /\ call.text = <<"a", NL, "a">>
    /\ \A i \in 1..2 :
           /\ shape.paragraphs[i].runs[1].font.color = ThemeColor("ACCENT_1")
           /\ shape.paragraphs[i].runs[1].font.name = None
           /\ shape.paragraphs[i].runs[1].font.bold = "True"

\* the first paragraph of the shape as the template has it holds a run
TemplateRun ==
    /\ HasTextFrame(slide[1])
    /\ Len(slide[1].paragraphs) > 0
    /\ Len(slide[1].paragraphs[1].runs) > 0

\* C27: on a text box whose template run has the style S, after every call
\* of any sequence of calls that writes a non-empty text, the first run of
\* every paragraph carries every attribute that S sets, also when an
\* earlier call of the sequence wrote the empty text.
C27_FormattingSurvivesWrites ==
    (TextWritten /\ TemplateRun /\ call.text # <<>>) =>
        \A i \in 1..Len(shape.paragraphs) :
            Len(shape.paragraphs[i].runs) > 0 =>
                Carries(shape.paragraphs[i].runs[1].font,
                        _capture_font_props(slide[1].paragraphs[1].runs[1].font))

\* the value a font attribute has when it is set to true
FlagSet(flag, value) == flag => value = "True"

\* the runs render the segments: one run per segment, with the segment's
\* text and its bold, italic and underline
RunsRender(runs, segments) ==
    /\ Len(runs) = Len(segments)
    /\ \A j \in 1..Len(runs) :
           /\ runs[j].text = segments[j].text
           /\ FlagSet(segments[j].bold, runs[j].font.bold)
           /\ FlagSet(segments[j].italic, runs[j].font.italic)
           /\ FlagSet(segments[j].underline, runs[j].font.underline)

\* C21: when the written text contains markup, every line is rendered as
\* one run per parsed segment: the run texts are the segment texts (so that
\* together they spell the line with the markers stripped) and each run
\* carries its segment's bold, italic and underline.
C21_MarkupRendered ==
    (TextWritten /\ call.result /\ _has_markdown(call.text)) =>
        /\ Len(shape.paragraphs) = Len(Split(call.text))
        /\ \A i \in 1..Len(shape.paragraphs) :
               RunsRender(shape.paragraphs[i].runs,
                          _parse_markdown_inline(Split(call.text)[i]))

-----------------------------------------------------------------------------
(* Properties of repeated populate_table calls (SpecTables).               *)

\* the last call supplied a non-empty value for the cell at row r, column
\* c (both 1-based) of the table
ReceivedValue(r, c) ==
    /\ r - 1 - DataStart >= 0
    /\ r - 1 - DataStart < Len(call.data)
    /\ c <= Len(call.data[r - DataStart])
    /\ call.data[r - DataStart][c] # <<>>

\* C28: on a table of the template, after every call of any sequence of
\* calls, a cell that received a non-empty value carries, on the first run
\* of each of its paragraphs, the style its template cell had, also when
\* an earlier call cleared the cell as an unwritten row.
C28_CellFormattingSurvives ==
    call.op = "populate_table" =>
        \A r \in 1..Len(shape.table.rows) : \A c \in 1..shape.table.columns :
            ReceivedValue(r, c) =>
                \A i \in 1..Len(shape.table.rows[r][c]) :
                    Len(shape.table.rows[r][c][i].runs) > 0 =>
                        Carries(shape.table.rows[r][c][i].runs[1].font,
                                CaptureFirstParagraph(slide[1].table.rows[r][c]))

-----------------------------------------------------------------------------
(* Properties of the inline markdown functions (SpecMarkup).               *)

Parsed == call.op = "markdown" /\ call.parsed
Detected == call.op = "markdown" /\ call.detected
IsStyled(seg) == seg.bold \/ seg.italic \/ seg.underline
SegmentTexts(segments) == Concat([i \in 1..Len(segments) |-> segments[i].text])

RECURSIVE MatchesFrom(_, _)
\* the matches the scan makes from `from` on, in order
MatchesFrom(text, from) ==
    IF MatchStarts(text, from) = {} THEN <<>>
    ELSE LET p == CHOOSE p \in MatchStarts(text, from) :
                      \A r \in MatchStarts(text, from) : p <= r
         IN <<MatchAt(text, p)>> \o MatchesFrom(text, MatchAt(text, p).end + 1)

\* the positions of the opening and closing markers of the matches
MarkerPositions(text) ==
    LET ms == MatchesFrom(text, 1)
    IN UNION {(ms[i].start..(ms[i].start + Len(ms[i].form.open) - 1))
                  \cup ((ms[i].end - Len(ms[i].form.close) + 1)..ms[i].end) :
              i \in 1..Len(ms)}

\* the characters of text at the positions of `keep`, in order
Keeping(text, keep) ==
    [n \in 1..Cardinality(keep) |->
        text[CHOOSE i \in keep : Cardinality({j \in keep : j < i}) = n - 1]]

\* text with the recognised markers removed
StripMarkers(text) == Keeping(text, (1..Len(text)) \ MarkerPositions(text))

\* text with every backslash removed that stands before `*` or `_`
StripEscapes(text) ==
    Keeping(text, {i \in 1..Len(text) :
                      ~(text[i] = BS /\ i < Len(text) /\ text[i + 1] \in {"*", "_"})})

\* text holds no escape and nothing that the grammar recognises
NoMarkerNoEscape(text) ==
    /\ MatchStarts(text, 1) = {}
    /\ StripEscapes(text) = text

\* C16: the texts of the segments, concatenated in order, spell the input
\* with the recognised markers removed and `\*`, `\_` replaced by `*`, `_`;
\* a text without marker and escape (the empty text too) gives exactly one
\* segment, holding the text verbatim with bold, italic and underline false.
C16_SegmentsSpellText ==
    Parsed =>
        /\ SegmentTexts(call.segments) = StripEscapes(StripMarkers(call.text))
        /\ NoMarkerNoEscape(call.text) =>
               call.segments =
                   <<[text |-> call.text, bold |-> FALSE, italic |-> FALSE, underline |-> FALSE]>>

C16_ItalicThenEscapedStar ==
    /\ Parsed
    /\ call.text = <<"*", "a", "*", BS, "*">>
    /\ Len(call.segments) = 2
    /\ call.segments[1].italic
    /\ SegmentTexts(call.segments) = <<"a", "*">>

\* the text has no escaped `*` or `_`
NoEscapes(text) == StripEscapes(text) = text

\* C17 as stated: for a text without escaped markers, _has_markdown is true
\* exactly when the parse holds a segment with bold, italic or underline.
C17_DetectionIffStyled ==
    (Parsed /\ Detected /\ NoEscapes(call.text)) =>
        (call.has_markdown <=> \E i \in 1..Len(call.segments) : IsStyled(call.segments[i]))

\* C17 amended: when the parse holds a styled segment _has_markdown is
\* true, and when _has_markdown is false the parse is one plain segment;
\* _has_markdown is also true of a text whose `*` or `__` finds no closing
\* partner, and the parse of such a text holds no styled segment.
C17_StyledImpliesDetected ==
    (Parsed /\ Detected) =>
        /\ (\E i \in 1..Len(call.segments) : IsStyled(call.segments[i])) => call.has_markdown
        /\ ~call.has_markdown =>
               /\ Len(call.segments) = 1
               /\ ~IsStyled(call.segments[1])
        /\ (call.has_markdown /\ MatchStarts(call.text, 1) = {}) =>
               \A i \in 1..Len(call.segments) : ~IsStyled(call.segments[i])

C17_LoneStar ==
    /\ Parsed
    /\ Detected
    /\ call.text = <<"a", "*", "a">>
    /\ call.has_markdown
    /\ call.segments = <<PlainSegment(<<"a", "*", "a">>)>>

\* the number of `*` in marker m
Stars(m) == Cardinality({i \in 1..Len(m) : m[i] = "*"})

\* the wrapped forms: the opening marker of each, the closing one being
\* its mirror image
Openings ==
    {Star2, Star1, Under2, Star3, Star2 \o Under2, Under2 \o Star2,
     Star1 \o Under2, Under2 \o Star1, Star3 \o Under2, Under2 \o Star3}
Mirror(m) == [i \in 1..Len(m) |-> m[Len(m) + 1 - i]]

\* C18: a marker-free content X wrapped in one of the ten forms parses to
\* exactly one segment with text X, bold when the wrapper holds `**` or
\* `***`, italic when it holds `*` or `***`, underline when it holds `__`;
\* so the two orderings of one combination give the same flags.
C18_WrappedForms ==
    Parsed =>
        \A open \in Openings, X \in Contents :
            call.text = open \o X \o Mirror(open) =>
                call.segments =
                    <<[text |-> X,
                       bold |-> Stars(open) >= 2,
                       italic |-> Stars(open) \in {1, 3},
                       underline |-> \E i \in 1..Len(open) : open[i] = "_"]>>

C18_AllThreeUnderlineOutside ==
    /\ Parsed
    /\ call.text = Under2 \o Star3 \o <<"a", "b">> \o Star3 \o Under2
    /\ call.segments =
           <<[text |-> <<"a", "b">>, bold |-> TRUE, italic |-> TRUE, underline |-> TRUE]>>

OnlyEscapedMarkers(text) ==
    \A p \in 1..Len(text) : text[p] \in {"*", "_"} => (p > 1 /\ text[p - 1] = BS)

\* C20: a text whose only `*` and `_` are escaped parses to exactly one
\* plain segment, the text with each `\*` and `\_` replaced by `*` and `_`,
\* and _has_markdown is false of it.
C20_EscapedMarkersLiteral ==
    (Parsed /\ Detected /\ OnlyEscapedMarkers(call.text)) =>
        /\ call.segments =
               <<[text |-> StripEscapes(call.text),
                  bold |-> FALSE, italic |-> FALSE, underline |-> FALSE]>>
        /\ ~call.has_markdown

C20_EscapedStarAndUnderscore ==
    /\ Parsed
    /\ Detected
    /\ call.text = <<BS, "*", "a", BS, "_">>
    /\ call.segments = <<PlainSegment(<<BS, "*", "a", BS, "_">>)>>
    /\ call.segments[1].text = <<"*", "a", "_">>
    /\ ~call.has_markdown

-----------------------------------------------------------------------------
(* Properties of extraction followed by population (SpecRoundTrip).        *)

RECURSIVE SumLen(_)
SumLen(seqs) == IF Len(seqs) = 0 THEN 0 ELSE Len(seqs[1]) + SumLen(Tail(seqs))

\* C22: the extraction of all slides, handed unchanged to the population
\* of the same presentation, is taken as one item per slide, each
\* populating its own slide in place; every extracted shape is written back
\* and counted as a field, and the presentation reads as it did before.
C22_ExtractionPopulateReady ==
    (call.op = "extract_data" /\ pc = "saved") =>
        /\ Len(log) = Len(template)
        /\ \A i \in 1..Len(log) :
               /\ ~log[i].cloned
               /\ log[i].target = i - 1
               /\ Len(log[i].fields) = Len(call.slides_data[i]["shapes"])
        /\ total_fields =
               SumLen([i \in 1..Len(call.slides_data) |-> call.slides_data[i]["shapes"]])
        /\ ExtractAll(prs) = ExtractAll(template)

-----------------------------------------------------------------------------
(* Properties of the population run on a given slides_data (SpecRun).      *)

Keys(data) == {data[k].key : k \in 1..Len(data)}
InFields(fields, key) == \E n \in 1..Len(fields) : fields[n] = key

\* the shape is of the wrong kind for the field's value
KindMismatch(s, f) ==
    IF IsList(f.value) THEN ~has_table(s) ELSE ~HasTextFrame(s) /\ ~HasTextAttr(s)

\* the write populate_single_slide makes for field f of data on shape s
FieldWrite(s, f, data) ==
    IF IsList(f.value)
    THEN populate_table(s, f.value.rows, SkipHeader(data, f.key))
    ELSE populate_text_placeholder(s, Str(f.value))

\* field k of item e found a shape that is of the wrong kind for its value
MismatchedField(e, k) ==
    /\ find_shape_by_name(e.before, e.data[k].key) # 0
    /\ KindMismatch(e.before[find_shape_by_name(e.before, e.data[k].key)], e.data[k])

\* C11: a text write on a shape that is not text-capable (or on None) and a
\* table write on a shape without a table return False and leave the shape
\* as it was; in a run such a field is skipped: its shape and every shape no
\* other field addresses stay as they were, its key is not among the
\* populated fields, every other field of the item that finds a shape of its
\* kind is still populated, and the run goes on to the next item.
C11_KindMismatchSkipped ==
    /\ \A i \in Processed :
           \A k \in 1..Len(log[i].data) :
               LET e == log[i]
                   f == e.data[k]
                   idx == find_shape_by_name(e.before, f.key)
               IN /\ ~IsList(f.value) => ~populate_text_placeholder(NoneShape, Str(f.value)).result
                  /\ MismatchedField(e, k) =>
                        /\ ~FieldWrite(e.before[idx], f, e.data).result
                        /\ FieldWrite(e.before[idx], f, e.data).shape = e.before[idx]
                        /\ e.after[idx] = e.before[idx]
                        /\ Len(e.after) = Len(e.before)
                        /\ ~InFields(e.fields, f.key)
                        /\ \A k2 \in 1..Len(e.data) :
                               (/\ ~e.raised
                                /\ find_shape_by_name(e.before, e.data[k2].key) # 0
                                /\ ~MismatchedField(e, k2))
                                   => InFields(e.fields, e.data[k2].key)
                        /\ ~e.raised =>
                               \/ i < Len(log)
                               \/ pc \in {"loop", "saved"}
                               \/ returned.cause = "save"

C11_MismatchThenMore ==
    /\ pc = "saved"
    /\ returned.success
    /\ template = <<SlideA, SlideB>>
    /\ Len(log) = 3
    /\ log[1].slide_index = 0 /\ log[1].data = MismatchData
    /\ MismatchedField(log[1], 1)
    /\ log[1].fields = <<NameX>>
    /\ log[2].slide_index = 1 /\ log[2].data = GridData
    /\ MismatchedField(log[2], 2)
    /\ log[2].fields = <<>>
    /\ log[3].fields = <<NameX1, NameY>>
    /\ total_fields = 3

\* the fields of item e whose name finds a shape and whose write returns True
WrittenKeys(e) ==
    {k \in 1..Len(e.data) :
        /\ find_shape_by_name(e.before, e.data[k].key) # 0
        /\ FieldWrite(e.before[find_shape_by_name(e.before, e.data[k].key)],
                      e.data[k], e.data).result}

\* the shapes of the operated slide that some field of item e finds
Addressed(e) ==
    {find_shape_by_name(e.before, e.data[k].key) : k \in 1..Len(e.data)} \ {0}

RECURSIVE CountWritten(_)
\* the written fields of the first n items, an item left by an exception
\* excluded
CountWritten(n) ==
    IF n = 0 THEN 0
    ELSE CountWritten(n - 1)
           + (IF log[n].raised THEN 0 ELSE Cardinality(WrittenKeys(log[n])))

\* some list field of item e makes populate_table raise
HasRaisingField(e) ==
    \E k \in 1..Len(e.data) :
        /\ IsList(e.data[k].value)
        /\ find_shape_by_name(e.before, e.data[k].key) # 0
        /\ RowRaises(e.before[find_shape_by_name(e.before, e.data[k].key)], e.data[k].value,
                     SkipHeader(e.data, e.data[k].key))

\* total_fields counts exactly the fields that found a shape and were
\* written; a field that finds no shape is not among the populated fields
\* and a shape no field finds stays as it was.
Accounting ==
    /\ total_fields = CountWritten(Len(log))
    /\ pc = "saved" => returned.total_fields = CountWritten(Len(log))
    /\ \A i \in Processed :
           /\ ~log[i].raised => Len(log[i].fields) = Cardinality(WrittenKeys(log[i]))
           /\ \A k \in 1..Len(log[i].data) :
                  find_shape_by_name(log[i].before, log[i].data[k].key) = 0
                      => ~InFields(log[i].fields, log[i].data[k].key)
           /\ Len(log[i].after) = Len(log[i].before)
           /\ \A j \in 1..Len(log[i].before) :
                  j \notin Addressed(log[i]) => log[i].after[j] = log[i].before[j]

FailedAtLoadOrSave ==
    returned.message = NoSlides.message \/ returned.cause \in {"load", "save"}

\* C12 as stated: total_fields is the number of (item, key) pairs whose name
\* found a shape on the operated slide and whose write returned True; a key
\* that finds no shape adds nothing and changes nothing; and a run fails
\* only at the load or at the save.
C12_OnlyLoadSaveAbort ==
    /\ Accounting
    /\ pc = "failed" => FailedAtLoadOrSave

\* C12 amended: the same accounting; a run fails at the load, at the save,
\* or in an item one of whose list fields makes populate_table raise, and
\* never because a key finds no shape.
C12_FieldAccounting ==
    /\ Accounting
    /\ pc = "failed" =>
           \/ FailedAtLoadOrSave
           \/ Len(log) > 0 /\ log[Len(log)].raised
    /\ \A i \in Processed : log[i].raised => HasRaisingField(log[i])

C12_UnresolvedKeysSkipped ==
    /\ pc = "saved"
    /\ template = <<SlideA, SlideB>>
    /\ Len(log) = 2
    /\ log[1].slide_index = 1 /\ log[1].data = GridData
    /\ find_shape_by_name(log[1].before, NameX1) = 0
    /\ log[1].fields = <<>>
    /\ log[1].after = log[1].before
    /\ log[2].slide_index = 1 /\ log[2].data = MismatchData
    /\ find_shape_by_name(log[2].before, NameX) = 0
    /\ log[2].fields = <<NameY>>
    /\ returned.total_fields = 1

\* what holds of every state of a run
AbortState ==
    /\ returned.success <=> pc = "saved"
    /\ pc = "saved" =>
           /\ Len(log) = Len(call.slides_data)
           /\ \A i \in Processed : ~log[i].raised
           /\ returned.populated = Len(call.slides_data)
    /\ pc = "failed" =>
           /\ returned.message # None
           /\ returned.message # NoSlides.message => returned.cause # None
    /\ pc \in {"load", "loop"} => returned = NotReturned
    /\ \A i \in Processed : log[i].raised => (i = Len(log) /\ pc = "failed")
    /\ \A i \in Processed : log[i].data = ItemGet(call.slides_data[i], "data", <<>>)
    /\ Len(template) = 0 =>
           /\ log = <<>>
           /\ prs = template
           /\ pc \in {"load", "failed"}
           /\ pc = "failed" =>
                  returned \in {NoSlides, ErrorProcessing("load")}

\* what holds of every step of a run: a failed run does nothing more, and
\* the step that fails keeps the items processed so far
AbortStep ==
    /\ pc = "failed" => UNCHANGED vars
    /\ pc' = "failed" =>
           \/ log' = log
           \/ log' = Append(log, log'[Len(log')]) /\ log'[Len(log')].raised
    /\ pc' = "saved" => (pc = "saved" \/ (pc = "loop" /\ Len(log) = Len(call.slides_data)))

\* C15: a run that fails (at the load, in an item whose population raises,
\* at the save) stops at that step and returns failure with the cause: no
\* later item is processed and nothing is saved; success is returned only
\* with the save, which comes after every item was processed; a template
\* without slides fails before any item is processed.
C15_AbortOnFailure == []AbortState /\ [][AbortStep]_vars

C15_RaisedInFirstOfThree ==
    /\ pc = "failed"
    /\ Len(call.slides_data) = 3
    /\ Len(log) = 1
    /\ log[1].raised
    /\ ~returned.success
    /\ returned = ErrorProcessing("'int' object is not iterable")

-----------------------------------------------------------------------------
(* Properties of the two formats (SpecFormats).                            *)

FieldSet(fields) == {fields[n] : n \in 1..Len(fields)}

\* both calls are over, the single-slide one was for slide 0, and neither
\* failed to read or write its file
BothFormatsDone ==
    /\ call.op = "populate_presentation_from_data"
    /\ call.done
    /\ call.slide_index = 0
    /\ pc \in {"saved", "failed"}
    /\ returned.cause \notin {"load", "save"}
    /\ call.returned.cause \notin {"load", "save"}

\* C13: on the same template and field map, the single-slide call on slide
\* 0 and the multi-slide call on the one item (slide_index 0, data) succeed
\* or fail together, save the same presentation and populate the same set
\* of fields.
C13_LegacyEquivalence ==
    BothFormatsDone =>
        /\ call.returned.success = returned.success
        /\ returned.success =>
               /\ call.slides = prs
               /\ FieldSet(call.fields) = FieldSet(log[1].fields)

-----------------------------------------------------------------------------
(* Properties of the slides of the population run (Spec).                  *)

\* C23: no two items operate on the same slide, and an item operates in
\* place only on a slide of the template as it was loaded, never on a slide
\* that a clone of the same run created.
C23_OneSlidePerInstruction ==
    /\ \A i \in Processed, j \in Processed : i # j => log[i].target # log[j].target
    /\ \A i \in Processed : ~log[i].cloned => log[i].target < Len(template)

\* C24: an item that clones puts on the new slide exactly the shapes of the
\* source slide as they are then, in their order and with no placeholder of
\* the layout left, and appends the slide; whatever an item writes, in
\* place or on its clone, every slide other than the one it operates on
\* stays as it was.
C24_CloneContentIsolation ==
    [][Len(log') = Len(log) + 1 =>
          LET e == log'[Len(log')]
          IN /\ e.cloned =>
                    /\ e.before = prs[e.source + 1].shapes
                    /\ e.target = Len(prs)
                    /\ Len(prs') = Len(prs) + 1
             /\ ~e.cloned => Len(prs') = Len(prs)
             /\ prs'[e.target + 1].shapes = e.after
             /\ \A p \in 1..Len(prs) : p # e.target + 1 => prs'[p] = prs[p]]_vars

C24_CloneWrittenSourceKept ==
    /\ template = <<SlideA>>
    /\ Len(log) = 2
    /\ log[2].cloned
    /\ log[2].source = 0
    /\ Len(log[2].before) = Len(SlideA.shapes)
    /\ log[2].before = log[1].after
    /\ log[2].after # log[2].before
    /\ prs[1].shapes = log[1].after
    /\ prs[2].shapes = log[2].after

ClonesBefore(i) == Cardinality({j \in 1..(i - 1) : log[j].cloned})

\* the shapes of slide p when item i starts: as the last earlier item that
\* operated on p left them, or as the template has them
ContentBefore(p, i) ==
    LET prev == {j \in 1..(i - 1) : log[j].target = p}
    IN IF prev = {}
       THEN template[p + 1].shapes
       ELSE log[CHOOSE j \in prev : \A k \in prev : k <= j].after

\* the positions of the shapes that the keys of data resolve to
NamedShapes(shapes, data) == {find_shape_by_name(shapes, data[n].key) : n \in 1..Len(data)}

\* C29: an item that clones a slide_index of the template takes the slide
\* at that position as its source and starts from that slide's shapes as
\* the earlier items left them; every shape that no key of the item
\* resolves to shows on the clone what the source showed then.
C29_CloneOfCurrentState ==
    \A i \in Processed :
        (log[i].cloned /\ log[i].slide_index < Len(template)) =>
            /\ log[i].source = log[i].slide_index
            /\ log[i].before = ContentBefore(log[i].slide_index, i)
            /\ \A k \in 1..Len(log[i].before) :
                   k \notin NamedShapes(log[i].before, log[i].data) =>
                       log[i].after[k] = log[i].before[k]

C29_EarlierValueOnClone ==
    /\ template = <<SlideA>>
    /\ Len(log) = 2
    /\ log[1].data = <<Field(NameX, StrValue(<<"a">>))>>
    /\ log[2].cloned
    /\ Len(log[2].data) = 2
    /\ FrameText(template[1].shapes[1].paragraphs) = <<"t">>
    /\ FrameText(prs[2].shapes[1].paragraphs) = <<"a">>
    /\ FrameText(prs[2].shapes[2].paragraphs) = <<"b", NL, "c">>

NamesOf(shapes) == [k \in 1..Len(shapes) |-> shapes[k].name]

\* C30: at every point of a run the items that populated in place and
\* slides_created add up to the items processed, and the presentation
\* holds slides_created slides more than the template; the slides of the
\* template stay at their positions and each clone is put after all slides
\* there are, so that the clones follow the template in item order.
C30_SlideAccounting ==
    /\ Cardinality({i \in Processed : ~log[i].cloned}) + slides_created = Len(log)
    /\ Len(prs) = Len(template) + slides_created
    /\ \A p \in 1..Len(template) :
           /\ prs[p].layout = template[p].layout
           /\ NamesOf(prs[p].shapes) = NamesOf(template[p].shapes)
    /\ \A i \in Processed : log[i].cloned => log[i].target = Len(template) + ClonesBefore(i)

C30_OutputOrderDiffers ==
    /\ pc = "saved"
    /\ Len(template) = 2
    /\ Len(log) = 3
    /\ log[1].target = 0
    /\ log[2].target = 2
    /\ log[3].target = 1
    /\ slides_created = 1
    /\ Len(prs) = 3

====
